---- MODULE Spec2Model ----
(***************************************************************************)
(* Model of archivo.py: the Julia call-graph extractor.                    *)
(*                                                                         *)
(* Text is modelled character by character: a string is a sequence of      *)
(* one-character strings, so that the regular expressions of the source    *)
(* are computed as Python's re module computes them (leftmost match,       *)
(* greedy quantifiers) and not assumed.                                    *)
(***************************************************************************)
EXTENDS Naturals, Sequences, FiniteSets

VARIABLES
    disk,          \* the directory: os.listdir order, each entry's name, readability, text
    pc,            \* position of main()
    fileIdx,       \* combine_files: index of the directory entry being visited
    files_data,    \* combine_files: ordered dict filename -> content
    content,       \* main: combined_content
    functions,     \* parse_julia_content: ordered dict name -> record
    current_func,  \* parse_julia_content: the cursor
    searchPos,     \* parse_julia_content: where finditer resumes in content
    lines,         \* parse_julia_content: content.splitlines()
    lineIdx,       \* parse_julia_content: index of the line being scanned
    cursorLog,     \* history: cursorLog[i] is current_func when line i's matches were recorded
    nodes,         \* create_class_diagram: dot.node calls, in order
    nodeIdx,       \* create_class_diagram: index into functions.items() of the node loop
    edges,         \* create_class_diagram: the set `edges`
    dotEdges,      \* create_class_diagram: dot.edge calls, in order
    edgeIdx        \* create_class_diagram: index into functions.items() of the edge loop

vars == <<disk, pc, fileIdx, files_data, content, functions, current_func, searchPos,
          lines, lineIdx, cursorLog, nodes, nodeIdx, edges, dotEdges, edgeIdx>>

----------------------------------------------------------------------------
(* Characters and Python string primitives *)

\* Python's None; also the falsy value of `if current_func:` (a \w+ name is never empty)
None == <<>>

NL == "\n"

\* \w of Python's re on the characters the corpus uses
WordChars ==
    {"a","b","c","d","e","f","g","h","i","j","k","l","m","n","o","p","q","r","s","t",
     "u","v","w","x","y","z","A","B","C","D","E","F","G","H","I","J","K","L","M","N",
     "O","P","Q","R","S","T","U","V","W","X","Y","Z","0","1","2","3","4","5","6","7",
     "8","9","_"}

\* \s of Python's re, and what str.strip() removes
SpaceChars == {" ", "\t", "\n", "\r", "\f"}

IsWord(c) == c \in WordChars

IsSpace(c) == c \in SpaceChars

\* s[i:] of Python, i counted from 1
Tail_(s, i) == SubSeq(s, i, Len(s))

\* s.startswith(lit) at offset i
StartsWithAt(s, i, lit) ==
    /\ i + Len(lit) - 1 <= Len(s)
    /\ \A k \in 1..Len(lit) : s[i + k - 1] = lit[k]

\* str.startswith
StartsWith(s, lit) == StartsWithAt(s, 1, lit)

\* str.endswith
EndsWith(s, lit) == Len(lit) <= Len(s) /\ StartsWithAt(s, Len(s) - Len(lit) + 1, lit)

\* `lit in s` on strings: substring test
Contains(s, lit) == \E i \in 1..(Len(s) + 1) : StartsWithAt(s, i, lit)

\* end (exclusive) of the greedy run \w* starting at i
WordEnd(s, i) ==
    CHOOSE j \in i..(Len(s) + 1) :
        /\ \A k \in i..(j - 1) : IsWord(s[k])
        /\ (j = Len(s) + 1 \/ ~IsWord(s[j]))

\* end (exclusive) of the greedy run \s* starting at i
SpaceEnd(s, i) ==
    CHOOSE j \in i..(Len(s) + 1) :
        /\ \A k \in i..(j - 1) : IsSpace(s[k])
        /\ (j = Len(s) + 1 \/ ~IsSpace(s[j]))

\* str.strip()
Strip(s) ==
    LET keep == {i \in 1..Len(s) : ~IsSpace(s[i])}
    IN  IF keep = {} THEN <<>>
        ELSE SubSeq(s, CHOOSE i \in keep : \A j \in keep : i <= j,
                       CHOOSE i \in keep : \A j \in keep : j <= i)

\* least element of a non-empty set of positions
Min(S) == CHOOSE i \in S : \A j \in S : i <= j

\* str.split(sep) for a one-character separator
RECURSIVE Split(_, _)
Split(s, sep) ==
    LET at == {i \in 1..Len(s) : s[i] = sep}
    IN  IF at = {} THEN <<s>>
        ELSE <<SubSeq(s, 1, Min(at) - 1)>> \o Split(Tail_(s, Min(at) + 1), sep)

\* str.splitlines() (the corpus has no line boundary other than \n)
RECURSIVE SplitLines(_)
SplitLines(s) ==
    LET at == {i \in 1..Len(s) : s[i] = NL}
    IN  IF s = <<>> THEN <<>>
        ELSE IF at = {} THEN <<s>>
        ELSE <<SubSeq(s, 1, Min(at) - 1)>> \o SplitLines(Tail_(s, Min(at) + 1))

\* "\n".join(parts)
RECURSIVE JoinNL(_)
JoinNL(parts) ==
    IF parts = <<>> THEN <<>>
    ELSE IF Len(parts) = 1 THEN parts[1]
    ELSE parts[1] \o <<NL>> \o JoinNL(Tail(parts))

----------------------------------------------------------------------------
(* Ordered dicts: a sequence of [key, val] in insertion order *)

Keys(d) == {d[i].key : i \in 1..Len(d)}

HasKey(d, k) == k \in Keys(d)

Get(d, k) == d[CHOOSE i \in 1..Len(d) : d[i].key = k].val

\* d[k] = v: an existing key keeps its position
Put(d, k, v) ==
    IF HasKey(d, k)
    THEN [i \in 1..Len(d) |-> IF d[i].key = k THEN [key |-> k, val |-> v] ELSE d[i]]
    ELSE Append(d, [key |-> k, val |-> v])

----------------------------------------------------------------------------
(* The regular expressions of parse_julia_content *)

kwFunction == <<"f","u","n","c","t","i","o","n">>

kwReturn == <<"r","e","t","u","r","n">>

kwGdata == <<"g","d","a","t","a",".">>

\* function_pattern matched at offset i: function\s+(\w+)\s*\(([^)]*)\)
\* (\s and \w are disjoint and "(" is neither, so no shorter greedy run can match)
FunctionMatches(s, i) ==
    /\ StartsWithAt(s, i, kwFunction)
    /\ LET a == i + Len(kwFunction)
           b == SpaceEnd(s, a)
           c == WordEnd(s, b)
           d == SpaceEnd(s, c)
       IN  /\ b > a
           /\ c > b
           /\ d <= Len(s)
           /\ s[d] = "("
           /\ \E e \in (d + 1)..Len(s) : s[e] = ")"

\* group(1), group(2) and match.end() of function_pattern matched at offset i
FunctionGroups(s, i) ==
    LET b == SpaceEnd(s, i + Len(kwFunction))
        c == WordEnd(s, b)
        d == SpaceEnd(s, c)
        e == Min({k \in (d + 1)..Len(s) : s[k] = ")"})
    IN  [name |-> SubSeq(s, b, c - 1), params |-> SubSeq(s, d + 1, e - 1), end |-> e + 1]

\* offsets >= pos where function_pattern matches; finditer takes the least
FunctionStarts(s, pos) == {i \in pos..Len(s) : FunctionMatches(s, i)}

\* gdata_pattern matched at offset i: gdata\.(\w+)\s*=\s*(.+)   ("." is any character but \n)
GdataMatches(s, i) ==
    /\ StartsWithAt(s, i, kwGdata)
    /\ LET a == i + Len(kwGdata)
           b == WordEnd(s, a)
           c == SpaceEnd(s, b)
       IN  /\ b > a
           /\ c <= Len(s)
           /\ s[c] = "="
           /\ \E k \in (c + 1)..Len(s) :
                  /\ \A j \in (c + 1)..(k - 1) : IsSpace(s[j])
                  /\ s[k] # NL

\* gdata_pattern.search(line): group(1) of the leftmost match, None without a match
GdataSearch(s) ==
    LET at == {i \in 1..Len(s) : GdataMatches(s, i)}
    IN  IF at = {} THEN None
        ELSE SubSeq(s, Min(at) + Len(kwGdata), WordEnd(s, Min(at) + Len(kwGdata)) - 1)

\* variable_pattern matched at offset i: (\w+)\s*::?\s*\w*
VariableMatches(s, i) ==
    /\ IsWord(s[i])
    /\ LET c == SpaceEnd(s, WordEnd(s, i))
       IN  c <= Len(s) /\ s[c] = ":"

\* variable_pattern.search(line): group(1) of the leftmost match, None without a match
VariableSearch(s) ==
    LET at == {i \in 1..Len(s) : VariableMatches(s, i)}
    IN  IF at = {} THEN None ELSE SubSeq(s, Min(at), WordEnd(s, Min(at)) - 1)

\* call_pattern matched at offset i: (\w+)\(
CallMatches(s, i) ==
    /\ IsWord(s[i])
    /\ LET b == WordEnd(s, i)
       IN  b <= Len(s) /\ s[b] = "("

\* call_pattern.search(line): group(1) of the leftmost match, None without a match
CallSearch(s) ==
    LET at == {i \in 1..Len(s) : CallMatches(s, i)}
    IN  IF at = {} THEN None ELSE SubSeq(s, Min(at), WordEnd(s, Min(at)) - 1)

----------------------------------------------------------------------------
(* parse_julia_content *)

\* [param.strip() for param in params if param.strip()]
RECURSIVE StripNonEmpty(_)
StripNonEmpty(parts) ==
    IF parts = <<>> THEN <<>>
    ELSE (IF Strip(parts[1]) = <<>> THEN <<>> ELSE <<Strip(parts[1])>>)
            \o StripNonEmpty(Tail(parts))

\* match.group(2).split(','), stripped, empty entries dropped
Params(text) == StripNonEmpty(Split(text, ","))

\* the record a definition creates
NewRecord(params) ==
    [inputs |-> params, outputs |-> <<>>, variables |-> <<>>, calls |-> <<>>,
     gdata |-> <<>>]

\* functions[func_name] = {...}: the first pass registers one match
RegisterDefinition(funcs, m) == Put(funcs, m.name, NewRecord(Params(m.params)))

\* functions[k][field].append(v)
AppendField(funcs, k, field, v) ==
    Put(funcs, k, [Get(funcs, k) EXCEPT ![field] = Append(@, v)])

\* CursorAfter without the update of lines 53-56: the cursor stays where the first loop left it
CursorAfterNeverMoves(line, cur) == cur

\* the cursor after a (stripped) line: updated when the line starts with a definition
CursorAfter(line, cur) ==
    IF StartsWith(line, kwFunction) /\ FunctionMatches(line, 1)
    THEN FunctionGroups(line, 1).name
    ELSE cur

\* CallRecorded without `called_func != current_func`
CallRecordedSelfToo(funcs, called, cur) == HasKey(funcs, called)

\* CallRecorded without `called_func in functions`
CallRecordedUnknownToo(funcs, called, cur) == called # cur

\* `called_func in functions and called_func != current_func`
CallRecorded(funcs, called, cur) == HasKey(funcs, called) /\ called # cur

\* the `return` block of the line loop
ScanReturn(funcs, line, cur) ==
    IF StartsWith(line, kwReturn) /\ cur # None
    THEN AppendField(funcs, cur, "outputs", Strip(Tail_(line, Len(kwReturn) + 1)))
    ELSE funcs

\* the gdata block of the line loop
ScanGdata(funcs, line, cur) ==
    IF GdataSearch(line) # None /\ cur # None
    THEN AppendField(funcs, cur, "gdata", GdataSearch(line))
    ELSE funcs

\* the variable block of the line loop
ScanVariable(funcs, line, cur) ==
    IF VariableSearch(line) # None /\ cur # None
    THEN AppendField(funcs, cur, "variables", VariableSearch(line))
    ELSE funcs

\* the call block of the line loop
ScanCall(funcs, line, cur) ==
    IF CallSearch(line) # None /\ cur # None /\ CallRecorded(funcs, CallSearch(line), cur)
    THEN AppendField(funcs, cur, "calls", CallSearch(line))
    ELSE funcs

\* one iteration of the line loop on the raw line: the records afterwards
ScanBody(funcs, raw, cur) ==
    LET line == Strip(raw)
        c    == CursorAfter(line, cur)
    IN  ScanCall(ScanVariable(ScanGdata(ScanReturn(funcs, line, c), line, c), line, c),
                 line, c)

\* the first loop run to its end from offset pos: the records and the cursor it leaves
RECURSIVE RegisterAll(_, _, _, _)
RegisterAll(funcs, cur, text, pos) ==
    IF FunctionStarts(text, pos) = {} THEN [functions |-> funcs, current_func |-> cur]
    ELSE LET m == FunctionGroups(text, Min(FunctionStarts(text, pos)))
         IN  RegisterAll(RegisterDefinition(funcs, m), m.name, text, m.end)

\* the second loop run over the lines ls
RECURSIVE ScanAll(_, _, _)
ScanAll(funcs, cur, ls) ==
    IF ls = <<>> THEN funcs
    ELSE ScanAll(ScanBody(funcs, ls[1], cur), CursorAfter(Strip(ls[1]), cur), Tail(ls))

\* parse_julia_content(content) as a whole
ParseJuliaContent(text) ==
    LET first == RegisterAll(<<>>, None, text, 1)
    IN  ScanAll(first.functions, first.current_func, SplitLines(text))

----------------------------------------------------------------------------
(* create_class_diagram *)

\* next((file for file, data in files_data.items() if func_name in data["content"]), None)
OriginFile(fd, name) ==
    LET at == {i \in 1..Len(fd) : Contains(fd[i].val.content, name)}
    IN  IF at = {} THEN None ELSE fd[Min(at)].key

\* `edge not in edges`
EdgeIsNew(es, edge) == edge \notin es

\* the inner edge loop for one caller: es.seen is `edges`, es.dot the dot.edge calls so far
RECURSIVE EmitEdges(_, _, _)
EmitEdges(es, caller, calls) ==
    IF calls = <<>> THEN es
    ELSE LET edge == <<caller, calls[1]>>
         IN  EmitEdges(IF EdgeIsNew(es.seen, edge)
                       THEN [seen |-> es.seen \cup {edge}, dot |-> Append(es.dot, edge)]
                       ELSE es,
                       caller, Tail(calls))

\* the edge loop of create_class_diagram as a whole, from routine i on
RECURSIVE EmitAllEdges(_, _, _)
EmitAllEdges(es, funcs, i) ==
    IF i > Len(funcs) THEN es
    ELSE EmitAllEdges(EmitEdges(es, funcs[i].key, funcs[i].val.calls), funcs, i + 1)

----------------------------------------------------------------------------
(* The directories the model runs main() on *)

\* largest number of lines the readable .jl files of a directory hold together
MaxLines == 3

DefF == <<"f","u","n","c","t","i","o","n"," ","f","(","x",")">>

DefG == <<"f","u","n","c","t","i","o","n"," ","g","(","z",")">>

CallG == <<"y",":",":","T"," ","="," ","g","(","x",")">>

ReturnY == <<"r","e","t","u","r","n"," ","y">>

GdataC == <<"g","d","a","t","a",".","c"," ","="," ","c"," ","+"," ","1">>

NestedF == <<"p","(","f","(","x",")",")">>

\* the lines files are made of
LinePool == {DefF, DefG, CallG, ReturnY, GdataC, NestedF}

ExtJl == <<".","j","l">>

\* os.listdir order of the names a directory may hold (not alphabetical)
DirOrder == <<<<"b",".","j","l">>, <<"n","o","t","e","s",".","t","x","t">>, <<"a",".","j","l">>>>

\* the a.jl of the two-routine scenario
ScenarioText ==
    JoinNL(<<<<"f","u","n","c","t","i","o","n"," ","f","(","x",")">>,
             <<" "," ","y"," ","="," ","g","(","x",")">>,
             <<" "," ","r","e","t","u","r","n"," ","y">>,
             <<"e","n","d">>,
             <<"f","u","n","c","t","i","o","n"," ","g","(","z",")">>,
             <<" "," ","r","e","t","u","r","n"," ","z">>,
             <<"e","n","d">>>>)

ScenarioDisk == <<[name |-> DirOrder[3], readable |-> TRUE, text |-> ScenarioText]>>

InlineDefG == <<"@","i","n","l","i","n","e"," ","f","u","n","c","t","i","o","n"," ","g","(","z",")">>

\* a two-file directory: b.jl calls an unknown routine and calls g twice, a.jl
\* defines g after a macro and returns
SampleDisk ==
    <<[name |-> DirOrder[1], readable |-> TRUE,
       text |-> JoinNL(<<DefF, NestedF, CallG, CallG>>)],
      [name |-> DirOrder[3], readable |-> TRUE,
       text |-> JoinNL(<<InlineDefG, ReturnY>>)]>>

LineSeqs == UNION {[1..k -> LinePool] : k \in 0..MaxLines}

\* the entries of DirOrder picked by `present`, in order
RECURSIVE Listing(_, _)
Listing(present, i) ==
    IF i > Len(DirOrder) THEN <<>>
    ELSE (IF i \in present THEN <<i>> ELSE <<>>) \o Listing(present, i + 1)

\* a directory: the entries `present`, of which `unreadable` cannot be opened; the
\* readable .jl files hold the lines ls, the first of them the first `cut` lines.
\* A file that is never read holds no text the program could see.
MkDisk(present, unreadable, ls, cut) ==
    LET order == Listing(present, 1)
        jl    == SelectSeq(order, LAMBDA i : EndsWith(DirOrder[i], ExtJl) /\ i \notin unreadable)
        TextOf(i) ==
            IF Len(jl) >= 1 /\ i = jl[1] THEN JoinNL(SubSeq(ls, 1, cut))
            ELSE IF Len(jl) >= 2 /\ i = jl[2] THEN JoinNL(SubSeq(ls, cut + 1, Len(ls)))
            ELSE <<>>
    IN  [k \in 1..Len(order) |->
            [name |-> DirOrder[order[k]], readable |-> order[k] \notin unreadable,
             text |-> TextOf(order[k])]]

Disks ==
    {MkDisk(present, unreadable, ls, cut) :
        <<present, unreadable, ls, cut>> \in
            {q \in (SUBSET (1..Len(DirOrder))) \X (SUBSET (1..Len(DirOrder)))
                     \X LineSeqs \X (0..MaxLines) :
                LET jlIn == {i \in q[1] : EndsWith(DirOrder[i], ExtJl) /\ i \notin q[2]}
                IN  /\ q[2] \subseteq {i \in q[1] : EndsWith(DirOrder[i], ExtJl)}
                    /\ q[4] <= Len(q[3])
                    /\ Cardinality(jlIn) = 0 => q[3] = <<>>
                    /\ Cardinality(jlIn) <= 1 => q[4] = Len(q[3])}}
        \cup {ScenarioDisk, SampleDisk}

----------------------------------------------------------------------------
(* main() *)

Init ==
    /\ disk \in Disks
    /\ pc = "combine"
    /\ fileIdx = 1
    /\ files_data = <<>>
    /\ content = <<>>
    /\ functions = <<>>
    /\ current_func = None
    /\ searchPos = 1
    /\ lines = <<>>
    /\ lineIdx = 1
    /\ cursorLog = <<>>
    /\ nodes = <<>>
    /\ nodeIdx = 1
    /\ edges = {}
    /\ dotEdges = <<>>
    /\ edgeIdx = 1

\* combine_files: a directory entry that is no .jl file is passed over
SkipEntry ==
    /\ pc = "combine"
    /\ fileIdx <= Len(disk)
    /\ ~EndsWith(disk[fileIdx].name, ExtJl)
    /\ fileIdx' = fileIdx + 1
    /\ UNCHANGED <<disk, pc, files_data, content, functions, current_func, searchPos,
                   lines, lineIdx, cursorLog, nodes, nodeIdx, edges, dotEdges, edgeIdx>>

\* combine_files: a .jl file is opened and read whole
\* (the "imports" entry of files_data only feeds the node label and is left out)
ReadFile ==
    /\ pc = "combine"
    /\ fileIdx <= Len(disk)
    /\ EndsWith(disk[fileIdx].name, ExtJl)
    /\ disk[fileIdx].readable
    /\ files_data' = Put(files_data, disk[fileIdx].name, [content |-> disk[fileIdx].text])
    /\ fileIdx' = fileIdx + 1
    /\ UNCHANGED <<disk, pc, content, functions, current_func, searchPos,
                   lines, lineIdx, cursorLog, nodes, nodeIdx, edges, dotEdges, edgeIdx>>

\* combine_files: open() or read() raises; nothing catches it, main() ends with the traceback
ReadFileRaises ==
    /\ pc = "combine"
    /\ fileIdx <= Len(disk)
    /\ EndsWith(disk[fileIdx].name, ExtJl)
    /\ ~disk[fileIdx].readable
    /\ pc' = "aborted"
    /\ UNCHANGED <<disk, fileIdx, files_data, content, functions, current_func, searchPos,
                   lines, lineIdx, cursorLog, nodes, nodeIdx, edges, dotEdges, edgeIdx>>

\* main: combine_files returns, the contents are joined, parse_julia_content starts
JoinContents ==
    /\ pc = "combine"
    /\ fileIdx > Len(disk)
    /\ content' = JoinNL([i \in 1..Len(files_data) |-> files_data[i].val.content])
    /\ functions' = <<>>
    /\ current_func' = None
    /\ searchPos' = 1
    /\ pc' = "finditer"
    /\ UNCHANGED <<disk, fileIdx, files_data, lines, lineIdx, cursorLog, nodes, nodeIdx,
                   edges, dotEdges, edgeIdx>>

\* parse_julia_content, first loop: the next match of function_pattern.finditer(content)
FindDefinition ==
    /\ pc = "finditer"
    /\ FunctionStarts(content, searchPos) # {}
    /\ LET m == FunctionGroups(content, Min(FunctionStarts(content, searchPos)))
       IN  /\ functions' = RegisterDefinition(functions, m)
           /\ current_func' = m.name
           /\ searchPos' = m.end
    /\ UNCHANGED <<disk, pc, fileIdx, files_data, content, lines, lineIdx, cursorLog,
                   nodes, nodeIdx, edges, dotEdges, edgeIdx>>

\* parse_julia_content: finditer is exhausted, the content is split into lines
SplitContent ==
    /\ pc = "finditer"
    /\ FunctionStarts(content, searchPos) = {}
    /\ lines' = SplitLines(content)
    /\ lineIdx' = 1
    /\ pc' = "scan"
    /\ UNCHANGED <<disk, fileIdx, files_data, content, functions, current_func, searchPos,
                   cursorLog, nodes, nodeIdx, edges, dotEdges, edgeIdx>>

\* parse_julia_content, second loop: one line
ScanLine ==
    /\ pc = "scan"
    /\ lineIdx <= Len(lines)
    /\ current_func' = CursorAfter(Strip(lines[lineIdx]), current_func)
    /\ functions' = ScanBody(functions, lines[lineIdx], current_func)
    /\ cursorLog' = Append(cursorLog, current_func')
    /\ lineIdx' = lineIdx + 1
    /\ UNCHANGED <<disk, pc, fileIdx, files_data, content, searchPos, lines,
                   nodes, nodeIdx, edges, dotEdges, edgeIdx>>

\* parse_julia_content returns, create_class_diagram starts
ParseReturns ==
    /\ pc = "scan"
    /\ lineIdx > Len(lines)
    /\ nodeIdx' = 1
    /\ pc' = "nodes"
    /\ UNCHANGED <<disk, fileIdx, files_data, content, functions, current_func, searchPos,
                   lines, lineIdx, cursorLog, nodes, edges, dotEdges, edgeIdx>>

\* create_class_diagram, node loop: one routine
AddNode ==
    /\ pc = "nodes"
    /\ nodeIdx <= Len(functions)
    /\ nodes' = Append(nodes, [id |-> functions[nodeIdx].key,
                               file |-> OriginFile(files_data, functions[nodeIdx].key),
                               details |-> functions[nodeIdx].val])
    /\ nodeIdx' = nodeIdx + 1
    /\ UNCHANGED <<disk, pc, fileIdx, files_data, content, functions, current_func,
                   searchPos, lines, lineIdx, cursorLog, edges, dotEdges, edgeIdx>>

\* create_class_diagram: edges = set()
StartEdges ==
    /\ pc = "nodes"
    /\ nodeIdx > Len(functions)
    /\ edges' = {}
    /\ edgeIdx' = 1
    /\ pc' = "edges"
    /\ UNCHANGED <<disk, fileIdx, files_data, content, functions, current_func, searchPos,
                   lines, lineIdx, cursorLog, nodes, nodeIdx, dotEdges>>

\* create_class_diagram, edge loop: the calls of one routine
AddEdges ==
    /\ pc = "edges"
    /\ edgeIdx <= Len(functions)
    /\ LET es == EmitEdges([seen |-> edges, dot |-> dotEdges], functions[edgeIdx].key,
                           functions[edgeIdx].val.calls)
       IN  edges' = es.seen /\ dotEdges' = es.dot
    /\ edgeIdx' = edgeIdx + 1
    /\ UNCHANGED <<disk, pc, fileIdx, files_data, content, functions, current_func,
                   searchPos, lines, lineIdx, cursorLog, nodes, nodeIdx>>

\* main: the diagram is returned and rendered
Render ==
    /\ pc = "edges"
    /\ edgeIdx > Len(functions)
    /\ pc' = "done"
    /\ UNCHANGED <<disk, fileIdx, files_data, content, functions, current_func, searchPos,
                   lines, lineIdx, cursorLog, nodes, nodeIdx, edges, dotEdges, edgeIdx>>

Next ==
    \/ SkipEntry
    \/ ReadFile
    \/ ReadFileRaises
    \/ JoinContents
    \/ FindDefinition
    \/ SplitContent
    \/ ScanLine
    \/ ParseReturns
    \/ AddNode
    \/ StartEdges
    \/ AddEdges
    \/ Render

Spec == Init /\ [][Next]_vars

----------------------------------------------------------------------------
(* Notions the properties are stated in *)

nameF == <<"f">>

nameG == <<"g">>

\* number of occurrences of x in the sequence q
Count(q, x) == Cardinality({i \in 1..Len(q) : q[i] = x})

\* greatest element of a non-empty set of positions
Max(S) == CHOOSE i \in S : \A j \in S : j <= i

\* the routine whose definition is the last one recognized on a line, None without one
LastDefOn(raw) == RegisterAll(<<>>, None, raw, 1).current_func

\* the lines up to i that hold a recognized definition
DefLinesUpTo(i) == {j \in 1..i : LastDefOn(lines[j]) # None}

\* the routine whose definition is the most recent one at or before line i
Owner(i) == IF DefLinesUpTo(i) = {} THEN None ELSE LastDefOn(lines[Max(DefLinesUpTo(i))])

\* the line holds a call to S: the identifier S immediately followed by "("
HasCallTo(line, S) ==
    \E i \in 1..Len(line) :
        /\ CallMatches(line, i)
        /\ (i = 1 \/ ~IsWord(line[i - 1]))
        /\ SubSeq(line, i, WordEnd(line, i) - 1) = S

\* the names of the definitions of the text, in the order finditer meets them
RECURSIVE DefinitionNames(_, _)
DefinitionNames(text, pos) ==
    IF FunctionStarts(text, pos) = {} THEN <<>>
    ELSE LET m == FunctionGroups(text, Min(FunctionStarts(text, pos)))
         IN  <<m.name>> \o DefinitionNames(text, m.end)

\* the lines that hold a definition of R
DefLinesOf(R) == {j \in 1..Len(lines) : LastDefOn(lines[j]) = R}

\* the corpus with the bodies of all definitions of R but the last blanked out
WithoutEarlier(R) ==
    [i \in 1..Len(lines) |->
        IF Owner(i) = R /\ i < Max(DefLinesOf(R)) THEN <<>> ELSE lines[i]]

\* the contents of the loaded files but the k-th
ContentsWithout(k) ==
    LET rest == SelectSeq([i \in 1..Len(files_data) |-> i], LAMBDA i : i # k)
    IN  [j \in 1..Len(rest) |-> files_data[rest[j]].val.content]

\* the first loaded file whose text contains `function <name>`, None without one
DefiningFile(name) ==
    LET at == {i \in 1..Len(files_data) :
                  Contains(files_data[i].val.content, kwFunction \o <<" ">> \o name)}
    IN  IF at = {} THEN None ELSE files_data[Min(at)].key

\* the names of the .jl entries of the directory that can be read
ReadableJl == {disk[i].name : i \in {j \in 1..Len(disk) :
                                       EndsWith(disk[j].name, ExtJl) /\ disk[j].readable}}

----------------------------------------------------------------------------
(* Properties *)

\* C1: when the body of routine R holds a call to another defined routine S, the edge
\* (R, S) is emitted exactly once, whatever else is on the line of the call.
C1_EveryCallOneEdge ==
    pc = "done" =>
        \A R \in Keys(functions), S \in Keys(functions) :
            (/\ R # S
             /\ \E i \in 1..Len(lines) : Owner(i) = R /\ HasCallTo(Strip(lines[i]), S))
                => Count(dotEdges, <<R, S>>) = 1

\* C2: no record's calls list ever holds the record's own name and no edge (R, R) is
\* ever emitted.
C2_NoSelfEdge ==
    /\ \A i \in 1..Len(functions) :
           \A k \in 1..Len(functions[i].val.calls) :
               functions[i].val.calls[k] # functions[i].key
    /\ \A k \in 1..Len(dotEdges) : dotEdges[k][1] # dotEdges[k][2]
    /\ \A e \in edges : e[1] # e[2]

\* C2 witness: the run ended and a body line (no definition line) attributed to R
\* has R( as its call.
C2_Witness ==
    /\ pc = "done"
    /\ \E i \in 1..Len(lines) :
           /\ cursorLog[i] # None
           /\ LastDefOn(lines[i]) = None
           /\ CallSearch(Strip(lines[i])) = cursorLog[i]

\* C3: every entry of every calls list is a key of the index, and both endpoints of
\* every emitted edge are keys of the index (and, once the diagram is built, nodes).
C3_CallsAreKeys ==
    /\ \A i \in 1..Len(functions) :
           \A k \in 1..Len(functions[i].val.calls) :
               HasKey(functions, functions[i].val.calls[k])
    /\ \A k \in 1..Len(dotEdges) :
           /\ HasKey(functions, dotEdges[k][1])
           /\ HasKey(functions, dotEdges[k][2])
           /\ dotEdges[k][1] \in {nodes[n].id : n \in 1..Len(nodes)}
           /\ dotEdges[k][2] \in {nodes[n].id : n \in 1..Len(nodes)}

\* C3 witness: the run ended without error, a line attributed to a routine called a
\* name that is no key, and an edge was emitted.
C3_Witness ==
    /\ pc = "done"
    /\ dotEdges # <<>>
    /\ \E i \in 1..Len(lines) :
           /\ cursorLog[i] # None
           /\ CallSearch(Strip(lines[i])) # None
           /\ ~HasKey(functions, CallSearch(Strip(lines[i])))

\* C4: a routine defined more than once has the record of its last definition alone:
\* its inputs are the last definition's, and the record is what it would be had the
\* bodies of the earlier definitions of that name held nothing.
C4_LastDefinitionWins ==
    pc = "done" =>
        \A R \in Keys(functions) :
            Count(DefinitionNames(content, 1), R) > 1 /\ DefLinesOf(R) # {}
                => Get(functions, R) = Get(ParseJuliaContent(JoinNL(WithoutEarlier(R))), R)

\* C5: a loaded file without any definition changes nothing: the records and the edge
\* set are those of the run without that file.
C5_FileWithoutDefinitionsHarmless ==
    pc = "done" =>
        \A k \in 1..Len(files_data) :
            FunctionStarts(files_data[k].val.content, 1) = {}
                => LET without == ParseJuliaContent(JoinNL(ContentsWithout(k)))
                   IN  /\ functions = without
                       /\ edges = EmitAllEdges([seen |-> {}, dot |-> <<>>], without, 1).seen

\* C6: the origin file of every node is the first file, in enumeration order, whose
\* text contains `function <name>`.
C6_OriginIsDefiningFile ==
    \A n \in 1..Len(nodes) : nodes[n].file = DefiningFile(nodes[n].id)

\* C7: an unreadable file does not end the run, and once combine_files has returned
\* every readable .jl file of the directory is loaded.
C7_UnreadableFileSkipped ==
    /\ pc # "aborted"
    /\ pc # "combine" => Keys(files_data) = ReadableJl

\* C8: on the two-routine scenario the run ends with exactly the records f and g,
\* f.inputs = [x], f.calls = [g], y among f.outputs, g.inputs = [z], g.calls = [],
\* and exactly the edge (f, g).
C8_Scenario ==
    (disk = ScenarioDisk /\ pc = "done") =>
        /\ Len(functions) = 2
        /\ Keys(functions) = {nameF, nameG}
        /\ Get(functions, nameF).inputs = << <<"x">> >>
        /\ Get(functions, nameF).calls = <<nameG>>
        /\ \E k \in 1..Len(Get(functions, nameF).outputs) :
               Get(functions, nameF).outputs[k] = <<"y">>
        /\ Get(functions, nameG).inputs = << <<"z">> >>
        /\ Get(functions, nameG).calls = <<>>
        /\ edges = {<<nameF, nameG>>}
        /\ dotEdges = << <<nameF, nameG>> >>

\* C8 witness: the run on the scenario has ended.
C8_Witness == disk = ScenarioDisk /\ pc = "done" /\ Len(nodes) = 2

\* C9: the matches of every scanned line are attributed to the routine whose
\* definition is the most recent recognized one at or before that line, and to no
\* routine when there is none.
C9_LineCursorAttribution ==
    \A i \in 1..Len(cursorLog) : cursorLog[i] = Owner(i)

\* C10: the gdata collection of every record holds each field name at most once, and
\* only names that a line attributed to the routine assigns through gdata.
C10_GdataIsSet ==
    pc = "done" =>
        \A r \in 1..Len(functions) :
            \A k \in 1..Len(functions[r].val.gdata) :
                /\ Count(functions[r].val.gdata, functions[r].val.gdata[k]) = 1
                /\ \E i \in 1..Len(lines) :
                       /\ cursorLog[i] = functions[r].key
                       /\ GdataSearch(Strip(lines[i])) = functions[r].val.gdata[k]

====
